---- MODULE Spec2Model ----
(***************************************************************************)
(* Model of connectors/python/gaiacore_client.py: GaiaCoreClient and its   *)
(* four-stage run_full_pipeline.  The remote PostgREST server is the       *)
(* environment: for every endpoint the pipeline uses it holds the reply    *)
(* the server would give (a decoded JSON value, or a raised requests       *)
(* exception).  One invocation of run_full_pipeline is one behaviour.      *)
(***************************************************************************)
EXTENDS Integers, Sequences, FiniteSets, TLC

VARIABLES
    op,                  \* the client method invoked, with its arguments
    server,              \* reply of the remote API, per endpoint
    verbose,             \* argument verbose
    variable_source_id,  \* argument variable_source_id (None, "" or an id)
    pc,                  \* position inside run_full_pipeline
    results,             \* the local dict `results` (the Pipeline Outcome)
    dataset_name,        \* local dataset_name (bound in stage 3)
    external_table,      \* local external_table (bound in stage 4)
    requests,            \* requests handed to session.get / session.post
    inflight,            \* number of requests issued and not yet resolved
    narration,           \* lines written by print()
    returned,            \* values returned by run_full_pipeline
    escaped              \* exceptions that left run_full_pipeline

vars == <<op, server, verbose, variable_source_id, pc, results, dataset_name,
          external_table, requests, inflight, narration, returned, escaped>>

-----------------------------------------------------------------------------
(* Bounds *)

\* number of distinct failures a request can end in
MaxErr == 2

\* largest number of entries of a filter mapping
MaxFilters == 2

-----------------------------------------------------------------------------
(* Decoded JSON / Python values *)

JNull == [kind |-> "null"]
JStr(s) == [kind |-> "str", s |-> s]
JNum(n) == [kind |-> "num", n |-> n]
JList(items) == [kind |-> "list", items |-> items]
JDict(fields) == [kind |-> "dict", fields |-> fields]
EmptyDict == JDict(<<>>)
\* a local name that has not been assigned yet
Unbound == [kind |-> "unbound"]

\* result of evaluating an expression: a value or a raised exception
Ok(v) == [ok |-> TRUE, val |-> v]
Raise(m) == [ok |-> FALSE, exc |-> m]

TypeName(v) ==
    CASE v.kind = "null" -> "NoneType"
      [] v.kind = "str"  -> "str"
      [] v.kind = "num"  -> "int"
      [] v.kind = "list" -> "list"
      [] v.kind = "dict" -> "dict"

\* Python truth value (if x:)
Truthy(v) ==
    CASE v.kind = "null" -> FALSE
      [] v.kind = "str"  -> v.s # ""
      [] v.kind = "num"  -> v.n # 0
      [] v.kind = "list" -> Len(v.items) > 0
      [] v.kind = "dict" -> DOMAIN v.fields # {}

\* str(x) / f"{x}" for the scalars the client formats
Str(v) ==
    CASE v.kind = "null" -> "None"
      [] v.kind = "str"  -> v.s
      [] v.kind = "num"  -> ToString(v.n)
      [] v.kind = "list" -> IF Len(v.items) = 0 THEN "[]" ELSE "[...]"
      [] v.kind = "dict" -> IF DOMAIN v.fields = {} THEN "{}" ELSE "{...}"

\* x[i] with an integer subscript
GetIndex(v, i) ==
    CASE v.kind = "list" ->
            IF i + 1 <= Len(v.items) THEN Ok(v.items[i + 1])
            ELSE Raise("list index out of range")
      [] v.kind = "dict" -> Raise(ToString(i))
      [] v.kind \in {"null", "num"} ->
            Raise("'" \o TypeName(v) \o "' object is not subscriptable")

\* x[k] with a string subscript
GetKey(v, k) ==
    CASE v.kind = "dict" ->
            IF k \in DOMAIN v.fields THEN Ok(v.fields[k])
            ELSE Raise("'" \o k \o "'")
      [] v.kind = "list" ->
            Raise("list indices must be integers or slices, not str")
      [] v.kind = "str" ->
            Raise("string indices must be integers, not 'str'")
      [] v.kind \in {"null", "num"} ->
            Raise("'" \o TypeName(v) \o "' object is not subscriptable")

\* x.get(k, default)
DictGet(v, k, default) ==
    IF v.kind = "dict"
    THEN Ok(IF k \in DOMAIN v.fields THEN v.fields[k] ELSE default)
    ELSE Raise("'" \o TypeName(v) \o "' object has no attribute 'get'")

RECURSIVE SetToSeq(_)
SetToSeq(S) ==
    IF S = {} THEN <<>>
    ELSE LET x == CHOOSE y \in S : TRUE IN <<x>> \o SetToSeq(S \ {x})

\* the elements a for-loop visits
Iterate(v) ==
    CASE v.kind = "list" -> Ok(v.items)
      [] v.kind = "dict" ->
            Ok([i \in 1..Cardinality(DOMAIN v.fields) |->
                    JStr(SetToSeq(DOMAIN v.fields)[i])])
      [] v.kind \in {"null", "num"} ->
            Raise("'" \o TypeName(v) \o "' object is not iterable")

-----------------------------------------------------------------------------
(* Transport: requests.Session and the remote API *)

base_url == "http://localhost:3000"

\* urljoin(self.base_url, endpoint) for a base URL without a path
UrlJoin(base, endpoint) == base \o "/" \o endpoint

\* a request handed to session.get / session.post
HttpRequest(method, endpoint, headers, params, json) ==
    [method |-> method, url |-> UrlJoin(base_url, endpoint),
     headers |-> headers, params |-> params, json |-> json]

\* replies of the remote API
TransportFailure(m) == [kind |-> "transport", msg |-> m]
HttpReply(status, body) == [kind |-> "http", status |-> status, body |-> body]

\* response.raise_for_status()
RaiseForStatus(reply) ==
    IF reply.status >= 400 /\ reply.status < 500
    THEN Raise(ToString(reply.status) \o " Client Error")
    ELSE IF reply.status >= 500 /\ reply.status < 600
    THEN Raise(ToString(reply.status) \o " Server Error")
    ELSE Ok(JNull)

\* a client that answers None instead of raising
ReceiveSwallows(reply) ==
    IF reply.kind = "transport" THEN Ok(JNull)
    ELSE IF ~RaiseForStatus(reply).ok THEN Ok(JNull)
    ELSE Ok(reply.body)

\* session.get/post(...); response.raise_for_status(); return response.json()
Receive(reply) ==
    IF reply.kind = "transport" THEN Raise(reply.msg)
    ELSE IF ~RaiseForStatus(reply).ok THEN RaiseForStatus(reply)
    ELSE Ok(reply.body)

\* headers of _request
RequestHeaders(schema) ==
    IF schema = "working" THEN ("Accept-Profile" :> "working") ELSE <<>>

\* _rpc without the Accept-Profile header
RpcHeadersNoAccept(schema) ==
    IF schema = "working"
    THEN ("Content-Type" :> "application/json") @@
         ("Content-Profile" :> "working")
    ELSE ("Content-Type" :> "application/json")

\* headers of _rpc
RpcHeaders(schema) ==
    IF schema = "working"
    THEN ("Content-Type" :> "application/json") @@
         ("Content-Profile" :> "working") @@ ("Accept-Profile" :> "working")
    ELSE ("Content-Type" :> "application/json")

\* the GET that _request(endpoint, schema, params) sends
Request(endpoint, schema, params) ==
    HttpRequest("GET", endpoint, RequestHeaders(schema), params, JNull)

\* the POST that _rpc(function_name, params, schema) sends
Rpc(function_name, params, schema) ==
    HttpRequest("POST", "rpc/" \o function_name, RpcHeaders(schema),
                JNull, JDict(params))

\* endpoint a request was sent to
EndpointOf(req) ==
    CHOOSE e \in {"rpc/fetch_and_load_jsonld", "rpc/load_location_data",
                  "rpc/quick_ingest_datasource", "data_source",
                  "rpc/spatial_join_exposure"} : req.url = UrlJoin(base_url, e)

-----------------------------------------------------------------------------
(* Convenience operations used by the pipeline: the request each one sends *)

fetch_and_load_jsonld(url) ==
    Rpc("fetch_and_load_jsonld", [url |-> JStr(url)], "backbone")

load_location_data(location_csv, location_history_csv) ==
    Rpc("load_location_data",
        [p_location_file |-> JStr(location_csv),
         p_location_history_file |-> JStr(location_history_csv)], "working")

\* download_url is left at its default None by the pipeline
quick_ingest_datasource(name) ==
    Rpc("quick_ingest_datasource", [p_dataset_name |-> name], "backbone")

spatial_join_exposure(var_id, ext_table) ==
    Rpc("spatial_join_exposure",
        [p_variable_source_id |-> var_id,
         p_external_table |-> JStr(ext_table)], "working")

\* f"eq.{v}"
EqFilter(v) == JStr("eq." \o Str(v))

\* d[k] = v for every k, v of the mapping updates
DictUpdate(d, updates) ==
    [k \in DOMAIN d \cup DOMAIN updates |->
        IF k \in DOMAIN updates THEN updates[k] ELSE d[k]]

\* {k: f"eq.{v}" for k, v in filters.items()}
EqFilters(filters) == [k \in DOMAIN filters |-> EqFilter(filters[k])]

\* get_data_sources(**filters)
get_data_sources_kw(filters) ==
    Request("data_source", "backbone", JDict(EqFilters(filters)))

\* get_data_sources(dataset_name=name)
get_data_sources(name) == get_data_sources_kw([dataset_name |-> name])

-----------------------------------------------------------------------------
(* The remote API: the replies each endpoint can give *)

\* status of the i-th failing reply (i >= 2)
HttpStatus(i) == IF i % 2 = 0 THEN 498 + i ELSE 401 + i

\* the i-th way a request can fail: connection failure, then HTTP errors
ErrReply(i) ==
    IF i = 1 THEN TransportFailure("Connection refused")
    ELSE HttpReply(HttpStatus(i), JNull)

ErrReplies == {ErrReply(i) : i \in 1..MaxErr}

OkReplies(bodies) == {HttpReply(200, b) : b \in bodies}

MetaRow == JDict([dataset_name |-> JStr("PM2.5"), variables_loaded |-> JNum(3)])
\* a table-returning function answers with a list of rows
MetaRows == JList(<<MetaRow>>)
\* the bare object of fetch_and_load_jsonld's docstring
MetaObject == MetaRow
MetaNoVars == JList(<<JDict([dataset_name |-> JStr("PM2.5")])>>)
MetaEmpty == JList(<<>>)
MetaBodies == {MetaRows, MetaObject, MetaNoVars, MetaEmpty}

LocBody == JDict([locations_loaded |-> JNum(5)])

IngestSteps ==
    JList(<<JDict([step |-> JStr("download"), status |-> JStr("success")]),
            JDict([step |-> JStr("load"), status |-> JStr("warning")])>>)
IngestBare == JList(<<JDict([step |-> JStr("download")])>>)
IngestObject == JDict([status |-> JStr("success")])
IngestBodies == {IngestSteps, IngestBare, IngestObject}

DsRecord(etl) == JDict([dataset_name |-> JStr("PM2.5"), etl_metadata |-> etl])
DsFull ==
    JList(<<DsRecord(JDict([ingested_table |->
                JDict([schema |-> JStr("staging"), table |-> JStr("pm25")])]))>>)
DsNoSchema ==
    JList(<<DsRecord(JDict([ingested_table |->
                JDict([table |-> JStr("pm25")])]))>>)
DsNoTable ==
    JList(<<DsRecord(JDict([ingested_table |->
                JDict([schema |-> JStr("staging")])]))>>)
DsNoIngested == JList(<<DsRecord(EmptyDict)>>)
DsNoEtl == JList(<<JDict([dataset_name |-> JStr("PM2.5")])>>)
DsNullIngested == JList(<<DsRecord(JDict([ingested_table |-> JNull]))>>)
DsNone == JList(<<>>)
DsBodies == {DsFull, DsNoSchema, DsNoTable, DsNoIngested, DsNoEtl,
             DsNullIngested, DsNone}

JoinBody == JDict([exposures_created |-> JNum(7)])

Servers ==
    [fetch_and_load_jsonld   : OkReplies(MetaBodies) \cup ErrReplies,
     load_location_data      : OkReplies({LocBody}) \cup ErrReplies,
     quick_ingest_datasource : OkReplies(IngestBodies) \cup ErrReplies,
     data_source             : OkReplies(DsBodies) \cup ErrReplies,
     spatial_join_exposure   : OkReplies({JoinBody}) \cup ErrReplies]

\* arguments of the invocation
metadata_url == "http://example.org/pm25.jsonld"
location_csv == "/csv/LOCATION.csv"
location_history_csv == "/csv/LOCATION_HISTORY.csv"
VariableIds == {JNull, JStr(""), JStr("avpmu_2015")}

-----------------------------------------------------------------------------
(* run_full_pipeline.  A frame f holds the locals of one invocation, a its *)
(* arguments and the server it talks to; every operator below is the code  *)
(* between two waits on the network.                                       *)

\* results = {"metadata": None, ..., "errors": []}
NewResults ==
    [metadata |-> JNull, locations |-> JNull, ingestion |-> JNull,
     spatial_join |-> JNull, errors |-> <<>>]

NewFrame ==
    [pc |-> "s1", results |-> NewResults, dataset_name |-> Unbound,
     external_table |-> Unbound, requests |-> <<>>, inflight |-> 0,
     narration |-> <<>>, returned |-> <<>>, escaped |-> <<>>]

\* if verbose: print(line)
Narrate(f, a, line) ==
    IF a.verbose THEN [f EXCEPT !.narration = Append(@, line)] ELSE f

\* session.get / session.post is entered with request req
Send(f, req) ==
    [f EXCEPT !.requests = Append(@, req), !.inflight = @ + 1]

\* a call that returns while its request is still in flight
ResolvedNotAwaited(f) == f

\* the call returned or raised
Resolved(f) == [f EXCEPT !.inflight = @ - 1]

\* return results
ReturnResults(f) ==
    [f EXCEPT !.returned = Append(@, f.results), !.pc = "done"]

\* an exception no handler caught leaves the function
Propagate(f, exc) ==
    [f EXCEPT !.escaped = Append(@, exc), !.pc = "done"]

\* stage 1 handler without its return
Stage1ExceptNoReturn(f, a, exc) ==
    LET g == [f EXCEPT !.results.errors =
                  Append(@, "Metadata loading failed: " \o exc)]
    IN [Narrate(g, a, "  x Error: " \o exc) EXCEPT !.pc = "s2"]

\* stage 1 handler that drops str(e)
Stage1ExceptNoDetail(f, a, exc) ==
    LET g == [f EXCEPT !.results.errors =
                  Append(@, "Metadata loading failed: ")]
    IN ReturnResults(Narrate(g, a, "  x Error: " \o exc))

\* except Exception as e: of stage 1
Stage1Except(f, a, exc) ==
    LET g == [f EXCEPT !.results.errors =
                  Append(@, "Metadata loading failed: " \o exc)]
    IN ReturnResults(Narrate(g, a, "  x Error: " \o exc))

\* stage 2 handler that discards the stored metadata
Stage2ExceptDropsMetadata(f, a, exc) ==
    LET g == [f EXCEPT !.results.errors =
                  Append(@, "Location loading failed: " \o exc),
                       !.results.metadata = JNull]
    IN [Narrate(g, a, "  x Error: " \o exc) EXCEPT !.pc = "s3"]

\* stage 2 handler that tries the stage again
Stage2ExceptRetry(f, a, exc) ==
    LET g == [f EXCEPT !.results.errors =
                  Append(@, "Location loading failed: " \o exc)]
    IN [Narrate(g, a, "  x Error: " \o exc) EXCEPT !.pc = "s2"]

\* except Exception as e: of stage 2
Stage2Except(f, a, exc) ==
    LET g == [f EXCEPT !.results.errors =
                  Append(@, "Location loading failed: " \o exc)]
    IN [Narrate(g, a, "  x Error: " \o exc) EXCEPT !.pc = "s3"]

\* stage 3 handler without its return
Stage3ExceptNoReturn(f, a, exc) ==
    LET g == [f EXCEPT !.results.errors =
                  Append(@, "Data ingestion failed: " \o exc)]
    IN [Narrate(g, a, "  x Error: " \o exc) EXCEPT !.pc = "s4"]

\* stage 3 handler that inserts its message at the front
Stage3ExceptPrepends(f, a, exc) ==
    LET g == [f EXCEPT !.results.errors =
                  <<"Data ingestion failed: " \o exc>> \o @]
    IN ReturnResults(Narrate(g, a, "  x Error: " \o exc))

\* except Exception as e: of stage 3
Stage3Except(f, a, exc) ==
    LET g == [f EXCEPT !.results.errors =
                  Append(@, "Data ingestion failed: " \o exc)]
    IN ReturnResults(Narrate(g, a, "  x Error: " \o exc))

\* stage 4 without a handler
Stage4ExceptUncaught(f, a, exc) == Propagate(f, exc)

\* except Exception as e: of stage 4
Stage4Except(f, a, exc) ==
    LET g == [f EXCEPT !.results.errors =
                  Append(@, "Spatial join failed: " \o exc)]
    IN [Narrate(g, a, "  x Error: " \o exc) EXCEPT !.pc = "finish"]

\* stage 1 up to the call of fetch_and_load_jsonld
Stage1Issue(f, a) ==
    LET g == Narrate(f, a, "Step 1: Loading JSON-LD metadata from URL...")
    IN [Send(g, fetch_and_load_jsonld(metadata_url)) EXCEPT !.pc = "s1_wait"]

\* stage 1 storing the first row instead of the response
Stage1ResolveFirstRow(f, a) ==
    LET r  == Receive(a.server.fetch_and_load_jsonld)
        f1 == Resolved(f)
        first == GetIndex(r.val, 0)
        g  == [f1 EXCEPT !.results.metadata = first.val]
        row == GetIndex(g.results.metadata, 0)
        dn == GetKey(row.val, "dataset_name")
        g2 == Narrate(g, a, "  + Loaded: " \o Str(dn.val))
        vl == GetKey(row.val, "variables_loaded")
        g3 == Narrate(g2, a, "  + Variables: " \o Str(vl.val))
    IN  IF ~r.ok THEN Stage1Except(f1, a, r.exc)
        ELSE IF ~first.ok THEN Stage1Except(f1, a, first.exc)
        ELSE IF ~a.verbose THEN [g EXCEPT !.pc = "s2"]
        ELSE IF ~row.ok THEN Stage1Except(g, a, row.exc)
        ELSE IF ~dn.ok THEN Stage1Except(g, a, dn.exc)
        ELSE IF ~vl.ok THEN Stage1Except(g2, a, vl.exc)
        ELSE [g3 EXCEPT !.pc = "s2"]

\* stage 1 from the return of fetch_and_load_jsonld
Stage1Resolve(f, a) ==
    LET r  == Receive(a.server.fetch_and_load_jsonld)
        f1 == Resolved(f)
        g  == [f1 EXCEPT !.results.metadata = r.val]
        row == GetIndex(g.results.metadata, 0)
        dn == GetKey(row.val, "dataset_name")
        g2 == Narrate(g, a, "  + Loaded: " \o Str(dn.val))
        vl == GetKey(row.val, "variables_loaded")
        g3 == Narrate(g2, a, "  + Variables: " \o Str(vl.val))
    IN  IF ~r.ok THEN Stage1Except(f1, a, r.exc)
        ELSE IF ~a.verbose THEN [g EXCEPT !.pc = "s2"]
        ELSE IF ~row.ok THEN Stage1Except(g, a, row.exc)
        ELSE IF ~dn.ok THEN Stage1Except(g, a, dn.exc)
        ELSE IF ~vl.ok THEN Stage1Except(g2, a, vl.exc)
        ELSE [g3 EXCEPT !.pc = "s2"]

\* stage 2 up to the call of load_location_data
Stage2Issue(f, a) ==
    LET g == Narrate(f, a, "Step 2: Loading location data...")
    IN [Send(g, load_location_data(location_csv, location_history_csv))
            EXCEPT !.pc = "s2_wait"]

\* stage 2 from the return of load_location_data
Stage2Resolve(f, a) ==
    LET r  == Receive(a.server.load_location_data)
        f1 == Resolved(f)
        g  == [f1 EXCEPT !.results.locations = r.val]
    IN  IF ~r.ok THEN Stage2Except(f1, a, r.exc)
        ELSE [Narrate(g, a, "  + Locations loaded") EXCEPT !.pc = "s3"]

\* stage 3 up to the call of quick_ingest_datasource
Stage3Issue(f, a) ==
    LET g   == Narrate(f, a, "Step 3: Ingesting data source...")
        row == GetIndex(g.results.metadata, 0)
        dn  == GetKey(row.val, "dataset_name")
        g2  == [g EXCEPT !.dataset_name = dn.val]
    IN  IF ~row.ok THEN Stage3Except(g, a, row.exc)
        ELSE IF ~dn.ok THEN Stage3Except(g, a, dn.exc)
        ELSE [Send(g2, quick_ingest_datasource(g2.dataset_name))
                  EXCEPT !.pc = "s3_wait"]

\* for step in results["ingestion"]: print(symbol, step, status)
RECURSIVE NarrateSteps(_, _)
NarrateSteps(items, out) ==
    IF Len(items) = 0 THEN [ok |-> TRUE, out |-> out]
    ELSE LET step == Head(items)
             st   == GetKey(step, "status")
             sym  == IF st.val = JStr("success") THEN "+"
                     ELSE IF st.val = JStr("warning") THEN "!" ELSE "x"
             nm   == GetKey(step, "step")
         IN  IF ~st.ok THEN [ok |-> FALSE, out |-> out, exc |-> st.exc]
             ELSE IF ~nm.ok THEN [ok |-> FALSE, out |-> out, exc |-> nm.exc]
             ELSE NarrateSteps(Tail(items),
                      Append(out, "  " \o sym \o " " \o Str(nm.val) \o ": "
                                       \o Str(st.val)))

\* stage 3 from the return of quick_ingest_datasource
Stage3Resolve(f, a) ==
    LET r  == Receive(a.server.quick_ingest_datasource)
        f1 == Resolved(f)
        g  == [f1 EXCEPT !.results.ingestion = r.val]
        it == Iterate(g.results.ingestion)
        ns == NarrateSteps(it.val, g.narration)
        g2 == [g EXCEPT !.narration = ns.out]
    IN  IF ~r.ok THEN Stage3Except(f1, a, r.exc)
        ELSE IF ~a.verbose THEN [g EXCEPT !.pc = "s4"]
        ELSE IF ~it.ok THEN Stage3Except(g, a, it.exc)
        ELSE IF ~ns.ok THEN Stage3Except(g2, a, ns.exc)
        ELSE [g2 EXCEPT !.pc = "s4"]

\* stage 4 without the test of variable_source_id
Stage4IssueAlways(f, a) ==
    LET g == Narrate(f, a, "Step 4: Calculating exposures via spatial join...")
    IN [Send(g, get_data_sources(g.dataset_name)) EXCEPT !.pc = "s4_wait"]

\* stage 4 up to the call of get_data_sources
Stage4Issue(f, a) ==
    IF ~Truthy(a.variable_source_id) THEN [f EXCEPT !.pc = "finish"]
    ELSE LET g == Narrate(f, a, "Step 4: Calculating exposures via spatial join...")
         IN [Send(g, get_data_sources(g.dataset_name)) EXCEPT !.pc = "s4_wait"]

\* stage 4 without the test of table
Stage4ResolveNoTableCheck(f, a) ==
    LET r   == Receive(a.server.data_source)
        f1  == Resolved(f)
        ds  == GetIndex(r.val, 0)
        etl == DictGet(ds.val, "etl_metadata", EmptyDict)
        ingested_table == DictGet(etl.val, "ingested_table", EmptyDict)
        schema == DictGet(ingested_table.val, "schema", JStr("public"))
        table  == DictGet(ingested_table.val, "table", JNull)
    IN  IF ~r.ok THEN Stage4Except(f1, a, r.exc)
        ELSE IF ~ds.ok THEN Stage4Except(f1, a, ds.exc)
        ELSE IF ~etl.ok THEN Stage4Except(f1, a, etl.exc)
        ELSE IF ~ingested_table.ok THEN Stage4Except(f1, a, ingested_table.exc)
        ELSE IF ~schema.ok THEN Stage4Except(f1, a, schema.exc)
        ELSE [f1 EXCEPT !.external_table =
                            JStr(Str(schema.val) \o "." \o Str(table.val)),
                        !.pc = "s4_join"]

\* stage 4 going on to the join after recording the missing table
Stage4ResolveFallsThrough(f, a) ==
    LET r   == Receive(a.server.data_source)
        f1  == Resolved(f)
        ds  == GetIndex(r.val, 0)
        etl == DictGet(ds.val, "etl_metadata", EmptyDict)
        ingested_table == DictGet(etl.val, "ingested_table", EmptyDict)
        schema == DictGet(ingested_table.val, "schema", JStr("public"))
        table  == DictGet(ingested_table.val, "table", JNull)
        g   == [f1 EXCEPT !.results.errors =
                    Append(@, "Could not determine ingested table name")]
        h   == IF Truthy(table.val) THEN f1
               ELSE Narrate(g, a, "  x Could not determine ingested table name")
    IN  IF ~r.ok THEN Stage4Except(f1, a, r.exc)
        ELSE IF ~ds.ok THEN Stage4Except(f1, a, ds.exc)
        ELSE IF ~etl.ok THEN Stage4Except(f1, a, etl.exc)
        ELSE IF ~ingested_table.ok THEN Stage4Except(f1, a, ingested_table.exc)
        ELSE IF ~schema.ok THEN Stage4Except(f1, a, schema.exc)
        ELSE [h EXCEPT !.external_table =
                           JStr(Str(schema.val) \o "." \o Str(table.val)),
                       !.pc = "s4_join"]

\* stage 4 taking an empty result for a record without fields
Stage4ResolveEmptyAsRecord(f, a) ==
    LET r   == Receive(a.server.data_source)
        f1  == Resolved(f)
        ds  == IF r.val.kind = "list" /\ Len(r.val.items) = 0
               THEN Ok(EmptyDict) ELSE GetIndex(r.val, 0)
        etl == DictGet(ds.val, "etl_metadata", EmptyDict)
        ingested_table == DictGet(etl.val, "ingested_table", EmptyDict)
        schema == DictGet(ingested_table.val, "schema", JStr("public"))
        table  == DictGet(ingested_table.val, "table", JNull)
        g   == [f1 EXCEPT !.results.errors =
                    Append(@, "Could not determine ingested table name")]
    IN  IF ~r.ok THEN Stage4Except(f1, a, r.exc)
        ELSE IF ~ds.ok THEN Stage4Except(f1, a, ds.exc)
        ELSE IF ~etl.ok THEN Stage4Except(f1, a, etl.exc)
        ELSE IF ~ingested_table.ok THEN Stage4Except(f1, a, ingested_table.exc)
        ELSE IF ~schema.ok THEN Stage4Except(f1, a, schema.exc)
        ELSE IF Truthy(table.val)
             THEN [f1 EXCEPT !.external_table =
                                JStr(Str(schema.val) \o "." \o Str(table.val)),
                             !.pc = "s4_join"]
        ELSE [Narrate(g, a, "  x Could not determine ingested table name")
                  EXCEPT !.pc = "finish"]

\* stage 4 with no default for a missing schema
Stage4ResolveNoDefault(f, a) ==
    LET r   == Receive(a.server.data_source)
        f1  == Resolved(f)
        ds  == GetIndex(r.val, 0)
        etl == DictGet(ds.val, "etl_metadata", EmptyDict)
        ingested_table == DictGet(etl.val, "ingested_table", EmptyDict)
        schema == DictGet(ingested_table.val, "schema", JNull)
        table  == DictGet(ingested_table.val, "table", JNull)
        g   == [f1 EXCEPT !.results.errors =
                    Append(@, "Could not determine ingested table name")]
    IN  IF ~r.ok THEN Stage4Except(f1, a, r.exc)
        ELSE IF ~ds.ok THEN Stage4Except(f1, a, ds.exc)
        ELSE IF ~etl.ok THEN Stage4Except(f1, a, etl.exc)
        ELSE IF ~ingested_table.ok THEN Stage4Except(f1, a, ingested_table.exc)
        ELSE IF ~schema.ok THEN Stage4Except(f1, a, schema.exc)
        ELSE IF Truthy(table.val)
             THEN [f1 EXCEPT !.external_table =
                                JStr(Str(schema.val) \o "." \o Str(table.val)),
                             !.pc = "s4_join"]
        ELSE [Narrate(g, a, "  x Could not determine ingested table name")
                  EXCEPT !.pc = "finish"]

\* stage 4 from the return of get_data_sources up to spatial_join_exposure
Stage4Resolve(f, a) ==
    LET r   == Receive(a.server.data_source)
        f1  == Resolved(f)
        ds  == GetIndex(r.val, 0)
        etl == DictGet(ds.val, "etl_metadata", EmptyDict)
        ingested_table == DictGet(etl.val, "ingested_table", EmptyDict)
        schema == DictGet(ingested_table.val, "schema", JStr("public"))
        table  == DictGet(ingested_table.val, "table", JNull)
        g   == [f1 EXCEPT !.results.errors =
                    Append(@, "Could not determine ingested table name")]
    IN  IF ~r.ok THEN Stage4Except(f1, a, r.exc)
        ELSE IF ~ds.ok THEN Stage4Except(f1, a, ds.exc)
        ELSE IF ~etl.ok THEN Stage4Except(f1, a, etl.exc)
        ELSE IF ~ingested_table.ok THEN Stage4Except(f1, a, ingested_table.exc)
        ELSE IF ~schema.ok THEN Stage4Except(f1, a, schema.exc)
        ELSE IF Truthy(table.val)
             THEN [f1 EXCEPT !.external_table =
                                JStr(Str(schema.val) \o "." \o Str(table.val)),
                             !.pc = "s4_join"]
        ELSE [Narrate(g, a, "  x Could not determine ingested table name")
                  EXCEPT !.pc = "finish"]

\* the call of spatial_join_exposure
JoinIssue(f, a) ==
    [Send(f, spatial_join_exposure(a.variable_source_id, Str(f.external_table)))
        EXCEPT !.pc = "s4_join_wait"]

\* stage 4 from the return of spatial_join_exposure
JoinResolve(f, a) ==
    LET r  == Receive(a.server.spatial_join_exposure)
        f1 == Resolved(f)
        g  == [f1 EXCEPT !.results.spatial_join = r.val]
    IN  IF ~r.ok THEN Stage4Except(f1, a, r.exc)
        ELSE [Narrate(g, a, "  + Spatial join complete") EXCEPT !.pc = "finish"]

\* the closing summary and return results
Finish(f, a) ==
    LET line == IF Len(f.results.errors) = 0
                THEN "Pipeline completed successfully!"
                ELSE "Pipeline completed with " \o
                     ToString(Len(f.results.errors)) \o " error(s)"
    IN ReturnResults(Narrate(f, a, line))

\* the code run from position f.pc up to the next wait or the return
Step(f, a) ==
    CASE f.pc = "s1"           -> Stage1Issue(f, a)
      [] f.pc = "s1_wait"      -> Stage1Resolve(f, a)
      [] f.pc = "s2"           -> Stage2Issue(f, a)
      [] f.pc = "s2_wait"      -> Stage2Resolve(f, a)
      [] f.pc = "s3"           -> Stage3Issue(f, a)
      [] f.pc = "s3_wait"      -> Stage3Resolve(f, a)
      [] f.pc = "s4"           -> Stage4Issue(f, a)
      [] f.pc = "s4_wait"      -> Stage4Resolve(f, a)
      [] f.pc = "s4_join"      -> JoinIssue(f, a)
      [] f.pc = "s4_join_wait" -> JoinResolve(f, a)
      [] f.pc = "finish"       -> Finish(f, a)

\* run_full_pipeline from frame f to its return
RECURSIVE Run(_, _)
Run(f, a) == IF f.pc = "done" THEN f ELSE Run(Step(f, a), a)

-----------------------------------------------------------------------------
(* The state machine: one invocation against one server *)

Frame ==
    [pc |-> pc, results |-> results, dataset_name |-> dataset_name,
     external_table |-> external_table, requests |-> requests,
     inflight |-> inflight, narration |-> narration, returned |-> returned,
     escaped |-> escaped]

Args ==
    [server |-> server, verbose |-> verbose,
     variable_source_id |-> variable_source_id]

Install(f) ==
    /\ pc' = f.pc
    /\ results' = f.results
    /\ dataset_name' = f.dataset_name
    /\ external_table' = f.external_table
    /\ requests' = f.requests
    /\ inflight' = f.inflight
    /\ narration' = f.narration
    /\ returned' = f.returned
    /\ escaped' = f.escaped
    /\ UNCHANGED <<op, server, verbose, variable_source_id>>

Init ==
    /\ op = [name |-> "run_full_pipeline"]
    /\ server \in Servers
    /\ verbose \in BOOLEAN
    /\ variable_source_id \in VariableIds
    /\ pc = NewFrame.pc
    /\ results = NewFrame.results
    /\ dataset_name = NewFrame.dataset_name
    /\ external_table = NewFrame.external_table
    /\ requests = NewFrame.requests
    /\ inflight = NewFrame.inflight
    /\ narration = NewFrame.narration
    /\ returned = NewFrame.returned
    /\ escaped = NewFrame.escaped

MetadataCall    == pc = "s1"           /\ Install(Stage1Issue(Frame, Args))
MetadataReturn  == pc = "s1_wait"      /\ Install(Stage1Resolve(Frame, Args))
LocationsCall   == pc = "s2"           /\ Install(Stage2Issue(Frame, Args))
LocationsReturn == pc = "s2_wait"      /\ Install(Stage2Resolve(Frame, Args))
IngestionCall   == pc = "s3"           /\ Install(Stage3Issue(Frame, Args))
IngestionReturn == pc = "s3_wait"      /\ Install(Stage3Resolve(Frame, Args))
DataSourceCall  == pc = "s4"           /\ Install(Stage4Issue(Frame, Args))
DataSourceReturn == pc = "s4_wait"     /\ Install(Stage4Resolve(Frame, Args))
SpatialJoinCall == pc = "s4_join"      /\ Install(JoinIssue(Frame, Args))
SpatialJoinReturn == pc = "s4_join_wait" /\ Install(JoinResolve(Frame, Args))
Summary         == pc = "finish"       /\ Install(Finish(Frame, Args))

Next ==
    \/ MetadataCall
    \/ MetadataReturn
    \/ LocationsCall
    \/ LocationsReturn
    \/ IngestionCall
    \/ IngestionReturn
    \/ DataSourceCall
    \/ DataSourceReturn
    \/ SpatialJoinCall
    \/ SpatialJoinReturn
    \/ Summary

Spec == Init /\ [][Next]_vars

TypeOK ==
    /\ pc \in {"s1", "s1_wait", "s2", "s2_wait", "s3", "s3_wait", "s4",
               "s4_wait", "s4_join", "s4_join_wait", "finish", "done"}
    /\ inflight \in 0..1
    /\ Len(returned) + Len(escaped) <= 1

-----------------------------------------------------------------------------
(* The single-request operations of the client, outside the pipeline *)

\* params[k] = v
DictSet(d, k, v) == DictUpdate(d, k :> v)

\* the request of query(table, schema, select, filters, order, limit, offset);
\* filters None and {} are both the empty mapping
query(table, schema, select, filters, order, limit, offset) ==
    LET p0 == <<>>
        p1 == IF Truthy(select) THEN DictSet(p0, "select", select) ELSE p0
        p2 == IF DOMAIN filters # {} THEN DictUpdate(p1, EqFilters(filters))
              ELSE p1
        p3 == IF Truthy(order) THEN DictSet(p2, "order", order) ELSE p2
        p4 == IF Truthy(limit) THEN DictSet(p3, "limit", limit) ELSE p3
        p5 == IF Truthy(offset) THEN DictSet(p4, "offset", offset) ELSE p4
    IN  Request(table, schema, JDict(p5))

get_data_source(uuid) ==
    Request("data_source?data_source_uuid=eq." \o Str(uuid), "backbone", JNull)

list_downloadable_datasources == Rpc("list_downloadable_datasources", <<>>, "backbone")

get_variables(data_source_uuid) ==
    LET p0 == <<>>
        p1 == IF Truthy(data_source_uuid)
              THEN DictSet(p0, "data_source_uuid", EqFilter(data_source_uuid))
              ELSE p0
    IN  Request("variable_source", "backbone", JDict(p1))

get_locations(city, state, limit) ==
    LET p0 == ("limit" :> limit)
        p1 == IF Truthy(city) THEN DictSet(p0, "city", EqFilter(city)) ELSE p0
        p2 == IF Truthy(state) THEN DictSet(p1, "state", EqFilter(state)) ELSE p1
    IN  Request("location", "working", JDict(p2))

get_location(location_id) ==
    Request("location?location_id=eq." \o Str(location_id), "working", JNull)

get_location_history(location_id, person_id) ==
    LET p0 == <<>>
        p1 == IF Truthy(location_id)
              THEN DictSet(p0, "location_id", EqFilter(location_id)) ELSE p0
        p2 == IF Truthy(person_id)
              THEN DictSet(p1, "entity_id", EqFilter(person_id)) ELSE p1
    IN  Request("location_history", "working", JDict(p2))

get_exposures(person_id, location_id, limit) ==
    LET p0 == ("limit" :> limit)
        p1 == IF Truthy(person_id)
              THEN DictSet(p0, "person_id", EqFilter(person_id)) ELSE p0
        p2 == IF Truthy(location_id)
              THEN DictSet(p1, "location_id", EqFilter(location_id)) ELSE p1
    IN  Request("external_exposure", "working", JDict(p2))

\* quick_ingest_datasource(dataset_name, download_url)
quick_ingest_datasource_url(name, download_url) ==
    IF Truthy(download_url)
    THEN Rpc("quick_ingest_datasource",
             [p_dataset_name |-> name, p_download_url |-> download_url],
             "backbone")
    ELSE quick_ingest_datasource(name)

\* the request an invocation o of a client method sends
RequestOf(o) ==
    CASE o.name = "_request" -> Request(o.endpoint, o.schema, o.params)
      [] o.name = "_rpc" -> Rpc(o.function_name, o.params, o.schema)
      [] o.name = "get_data_sources" -> get_data_sources_kw(o.filters)
      [] o.name = "get_data_source" -> get_data_source(o.uuid)
      [] o.name = "list_downloadable_datasources" -> list_downloadable_datasources
      [] o.name = "get_variables" -> get_variables(o.data_source_uuid)
      [] o.name = "get_locations" -> get_locations(o.city, o.state, o.limit)
      [] o.name = "get_location" -> get_location(o.location_id)
      [] o.name = "get_location_history" ->
            get_location_history(o.location_id, o.person_id)
      [] o.name = "get_exposures" ->
            get_exposures(o.person_id, o.location_id, o.limit)
      [] o.name = "fetch_and_load_jsonld" -> fetch_and_load_jsonld(o.url)
      [] o.name = "quick_ingest_datasource" ->
            quick_ingest_datasource_url(o.dataset_name, o.download_url)
      [] o.name = "query" ->
            query(o.table, o.schema, o.select, o.filters, o.order, o.limit,
                  o.offset)
      [] o.name = "load_location_data" ->
            load_location_data(o.location_csv, o.location_history_csv)
      [] o.name = "spatial_join_exposure" ->
            spatial_join_exposure(o.variable_source_id, o.external_table)

\* what the method makes of the value _request / _rpc returned
ResultOf(o, val) ==
    CASE o.name = "get_data_source" -> GetIndex(val, 0)
      [] o.name = "get_location" ->
            IF Truthy(val) THEN GetIndex(val, 0) ELSE Ok(JNull)
      [] OTHER -> Ok(val)

\* the arguments the invocations are drawn from
Schemas == {"backbone", "working"}
FilterKeys == {"city", "state", "order", "limit"}
FilterValues == {JStr("FRESNO"), JNum(5)}
FilterMaps ==
    UNION {[K -> FilterValues] :
              K \in {S \in SUBSET FilterKeys : Cardinality(S) <= MaxFilters}}
OptText(t) == {JNull, JStr(t)}
OptNum(n) == {JNull, JNum(n)}

ClientCalls ==
    [name : {"_request"}, endpoint : {"location"}, schema : Schemas,
     params : {JNull, JDict([city |-> EqFilter(JStr("FRESNO"))])}]
    \cup [name : {"_rpc"}, function_name : {"list_downloadable_datasources"},
          params : {<<>>}, schema : Schemas]
    \cup [name : {"get_data_sources"}, filters : FilterMaps]
    \cup [name : {"get_data_source"}, uuid : {JStr("u-1")}]
    \cup [name : {"list_downloadable_datasources"}]
    \cup [name : {"get_variables"}, data_source_uuid : OptText("u-1")]
    \cup [name : {"get_locations"}, city : OptText("FRESNO"),
          state : OptText("CA"), limit : {JNum(100)}]
    \cup [name : {"get_location"}, location_id : {JNum(7)}]
    \cup [name : {"get_location_history"}, location_id : OptNum(7),
          person_id : OptNum(9)]
    \cup [name : {"get_exposures"}, person_id : OptNum(9),
          location_id : OptNum(7), limit : {JNum(100)}]
    \cup [name : {"fetch_and_load_jsonld"}, url : {metadata_url}]
    \cup [name : {"quick_ingest_datasource"}, dataset_name : {JStr("PM2.5")},
          download_url : OptText("http://example.org/pm25.zip")]
    \cup [name : {"query"}, table : {"location"}, schema : Schemas,
          select : OptText("location_id,city"), filters : FilterMaps,
          order : OptText("city.asc"), limit : OptNum(10), offset : OptNum(20)]
    \cup [name : {"load_location_data"}, location_csv : {location_csv},
          location_history_csv : {location_history_csv}]
    \cup [name : {"spatial_join_exposure"},
          variable_source_id : {JStr("avpmu_2015")},
          external_table : {"public.pm25"}]

\* the replies a single request can get: failures, a 300 that
\* raise_for_status lets pass, and 200 with rows, no rows or an object
RowsBody == JList(<<JDict([location_id |-> JNum(7)]), JDict([location_id |-> JNum(8)])>>)
ClientReplies ==
    ErrReplies \cup {HttpReply(300, RowsBody)}
    \cup OkReplies({RowsBody, JList(<<>>), MetaRow})

ClientInit ==
    /\ op \in ClientCalls
    /\ server \in [reply : ClientReplies]
    /\ verbose = FALSE
    /\ variable_source_id = JNull
    /\ pc = "call"
    /\ results = NewResults
    /\ dataset_name = Unbound
    /\ external_table = Unbound
    /\ requests = <<>>
    /\ inflight = 0
    /\ narration = <<>>
    /\ returned = <<>>
    /\ escaped = <<>>

\* the method builds its request and enters session.get / session.post
ClientCall ==
    /\ pc = "call"
    /\ requests' = Append(requests, RequestOf(op))
    /\ inflight' = inflight + 1
    /\ pc' = "wait"
    /\ UNCHANGED <<op, server, verbose, variable_source_id, results,
                   dataset_name, external_table, narration, returned, escaped>>

\* the response arrives: the method returns its result or raises
ClientReturn ==
    /\ pc = "wait"
    /\ LET r   == Receive(server.reply)
           res == IF r.ok THEN ResultOf(op, r.val) ELSE r
       IN  /\ returned' = IF res.ok THEN Append(returned, res.val) ELSE returned
           /\ escaped' = IF res.ok THEN escaped ELSE Append(escaped, res.exc)
    /\ inflight' = inflight - 1
    /\ pc' = "done"
    /\ UNCHANGED <<op, server, verbose, variable_source_id, results,
                   dataset_name, external_table, requests, narration>>

ClientNext ==
    \/ ClientCall
    \/ ClientReturn

ClientSpec == ClientInit /\ [][ClientNext]_vars

-----------------------------------------------------------------------------
(* Vocabulary of the properties *)

\* str(e) of every exception a stage can raise
ExcMessages ==
    {Receive(r).exc : r \in ErrReplies} \cup
    {"0", "list index out of range", "'dataset_name'", "'variables_loaded'",
     "'status'", "'step'", "string indices must be integers, not 'str'",
     "list indices must be integers or slices, not str",
     "'NoneType' object has no attribute 'get'",
     "'NoneType' object is not subscriptable",
     "'NoneType' object is not iterable"}

MetadataPrefix == "Metadata loading failed: "
LocationPrefix == "Location loading failed: "
IngestionPrefix == "Data ingestion failed: "
JoinPrefix == "Spatial join failed: "
NoTableMessage == "Could not determine ingested table name"

HasPrefix(msg, prefix) == \E m \in ExcMessages : msg = prefix \o m

\* stage whose handler wrote the message (0: none)
StageOfMessage(msg) ==
    IF HasPrefix(msg, MetadataPrefix) THEN 1
    ELSE IF HasPrefix(msg, LocationPrefix) THEN 2
    ELSE IF HasPrefix(msg, IngestionPrefix) THEN 3
    ELSE IF HasPrefix(msg, JoinPrefix) \/ msg = NoTableMessage THEN 4
    ELSE 0

StageFailed(n) ==
    \E i \in 1..Len(results.errors) : StageOfMessage(results.errors[i]) = n

Issued(req_set) == \E i \in 1..Len(requests) : requests[i] \in req_set

IssuedTo(endpoint) ==
    \E i \in 1..Len(requests) : requests[i].url = UrlJoin(base_url, endpoint)

Stage234Endpoints ==
    {"rpc/load_location_data", "rpc/quick_ingest_datasource", "data_source",
     "rpc/spatial_join_exposure"}

Stage4Endpoints == {"data_source", "rpc/spatial_join_exposure"}

OutcomeFields == {"metadata", "locations", "ingestion", "spatial_join", "errors"}

\* reply of the server to the request sent to endpoint
ReplyTo(endpoint) ==
    CASE endpoint = "rpc/fetch_and_load_jsonld"   -> server.fetch_and_load_jsonld
      [] endpoint = "rpc/load_location_data"      -> server.load_location_data
      [] endpoint = "rpc/quick_ingest_datasource" -> server.quick_ingest_datasource
      [] endpoint = "data_source"                 -> server.data_source
      [] endpoint = "rpc/spatial_join_exposure"   -> server.spatial_join_exposure

PrefixOf(endpoint) ==
    CASE endpoint = "rpc/fetch_and_load_jsonld"   -> MetadataPrefix
      [] endpoint = "rpc/load_location_data"      -> LocationPrefix
      [] endpoint = "rpc/quick_ingest_datasource" -> IngestionPrefix
      [] endpoint = "data_source"                 -> JoinPrefix
      [] endpoint = "rpc/spatial_join_exposure"   -> JoinPrefix

AllEndpoints == {"rpc/fetch_and_load_jsonld"} \cup Stage234Endpoints

\* every stage that applies to the invocation stored its response
AllStagesStored ==
    /\ results.metadata # JNull
    /\ results.locations # JNull
    /\ results.ingestion # JNull
    /\ Truthy(variable_source_id) => results.spatial_join # JNull

\* every entry of errors was written by one of the handlers
ErrorsClassified ==
    \A i \in 1..Len(results.errors) : StageOfMessage(results.errors[i]) # 0

-----------------------------------------------------------------------------
(* Properties of run_full_pipeline *)

\* C1: run_full_pipeline never lets an exception escape: whatever each
\* request does (succeeds, fails, answers with an unexpected shape) the
\* invocation returns exactly one outcome with the fields metadata,
\* locations, ingestion, spatial_join and errors, and every failure is an
\* entry of errors.
C1_NeverEscapes ==
    /\ escaped = <<>>
    /\ Len(returned) = (IF pc = "done" THEN 1 ELSE 0)
    /\ pc = "done" =>
        /\ DOMAIN returned[1] = OutcomeFields
        /\ returned[1] = results
        /\ ErrorsClassified
        /\ \A e \in AllEndpoints :
              IssuedTo(e) /\ ~Receive(ReplyTo(e)).ok =>
                  \E i \in 1..Len(results.errors) :
                      results.errors[i] = PrefixOf(e) \o Receive(ReplyTo(e)).exc
        /\ ~AllStagesStored => Len(results.errors) > 0

\* the location load fails and the data_source read finds no record
C1_Witness ==
    /\ pc = "done"
    /\ Len(returned) = 1
    /\ server.load_location_data.kind = "transport"
    /\ server.data_source = HttpReply(200, DsNone)
    /\ Len(results.errors) = 2
    /\ StageFailed(2) /\ StageFailed(4)

\* C2: a failure of stage 1 halts the pipeline: only the stage 1 request was
\* ever issued, errors has exactly one entry, and locations, ingestion and
\* spatial_join stay None.
C2_Stage1FailureHalts ==
    /\ (pc \notin {"s1", "s1_wait"} /\ ~Receive(server.fetch_and_load_jsonld).ok)
          => StageFailed(1)
    /\ StageFailed(1) =>
        /\ pc = "done"
        /\ requests = <<fetch_and_load_jsonld(metadata_url)>>
        /\ ~\E e \in Stage234Endpoints : IssuedTo(e)
        /\ Len(results.errors) = 1
        /\ results.locations = JNull
        /\ results.ingestion = JNull
        /\ results.spatial_join = JNull

\* stage 1 failed after its call returned, with a variable identifier given
C2_Witness ==
    /\ StageFailed(1)
    /\ results.metadata # JNull
    /\ Truthy(variable_source_id)
    /\ Len(returned) = 1

\* C3: a failure of stage 3 halts the pipeline: stage 4 issues no request and
\* spatial_join stays None even with a variable identifier, stage 2 was
\* attempted before, and if stage 2 succeeded errors holds exactly stage 3's
\* message.
C3_Stage3FailureHalts ==
    /\ (IssuedTo("rpc/quick_ingest_datasource") /\ pc # "s3_wait"
            /\ ~Receive(server.quick_ingest_datasource).ok) => StageFailed(3)
    /\ StageFailed(3) =>
        /\ pc = "done"
        /\ ~\E e \in Stage4Endpoints : IssuedTo(e)
        /\ results.spatial_join = JNull
        /\ IssuedTo("rpc/load_location_data")
        /\ ~StageFailed(2) =>
              /\ results.locations # JNull
              /\ Len(results.errors) = 1
              /\ StageOfMessage(results.errors[1]) = 3

\* the ingestion call failed after a successful location load, with a
\* variable identifier given
C3_Witness ==
    /\ StageFailed(3)
    /\ IssuedTo("rpc/quick_ingest_datasource")
    /\ ~Receive(server.quick_ingest_datasource).ok
    /\ results.locations # JNull
    /\ variable_source_id = JStr("avpmu_2015")

\* C4: a failure of stage 2 does not halt the pipeline: its message is
\* appended, locations stays None, quick_ingest_datasource is still issued,
\* and stage 4 follows when stage 3 succeeds and a variable identifier was
\* given.
C4_Stage2FailureContinues ==
    (pc = "done" /\ StageFailed(2)) =>
        /\ results.locations = JNull
        /\ Cardinality({i \in 1..Len(results.errors) :
                            StageOfMessage(results.errors[i]) = 2}) = 1
        /\ IssuedTo("rpc/quick_ingest_datasource")
        /\ (~StageFailed(3) /\ Truthy(variable_source_id))
              => IssuedTo("data_source")

\* C5: the narration does not influence the outcome: against the same
\* server, the invocation with the other value of verbose returns the same
\* outcome and issues the same requests.
C5_NarrationIndependent ==
    pc = "done" =>
        LET other == Run(NewFrame, [Args EXCEPT !.verbose = ~verbose])
        IN  /\ other.returned = returned
            /\ other.requests = requests

\* C6: without a variable identifier stage 4 is skipped: no data_source read,
\* no spatial_join_exposure call, spatial_join None and no stage 4 entry in
\* errors, whatever stages 1-3 did.
C6_NoVariableSkipsStage4 ==
    ~Truthy(variable_source_id) =>
        /\ ~\E e \in Stage4Endpoints : IssuedTo(e)
        /\ results.spatial_join = JNull
        /\ ~StageFailed(4)
        /\ pc \notin {"s4_wait", "s4_join", "s4_join_wait"}

\* stages 1 and 3 succeeded, stage 2 failed, and the invocation returned
\* without a variable identifier
C6_Witness ==
    /\ pc = "done"
    /\ variable_source_id = JNull
    /\ results.ingestion # JNull
    /\ StageFailed(2)
    /\ ~StageFailed(3)

\* the first record of a data_source reply has an ingested_table mapping
\* (the one of etl_metadata, or the {} that .get() substitutes) with no
\* table key
NoTableKey(body) ==
    /\ body.kind = "list"
    /\ Len(body.items) > 0
    /\ body.items[1].kind = "dict"
    /\ LET rec == body.items[1].fields
           etl == IF "etl_metadata" \in DOMAIN rec
                  THEN rec.etl_metadata ELSE EmptyDict
       IN  /\ etl.kind = "dict"
           /\ LET it == IF "ingested_table" \in DOMAIN etl.fields
                        THEN etl.fields.ingested_table ELSE EmptyDict
              IN  /\ it.kind = "dict"
                  /\ "table" \notin DOMAIN it.fields

\* the data_source read of stage 4 returned a record without a table key
Stage4RanWithoutTable ==
    /\ IssuedTo("data_source")
    /\ pc # "s4_wait"
    /\ Receive(server.data_source).ok
    /\ NoTableKey(server.data_source.body)

\* C7: when stage 4 runs and ingested_table has no table key, errors gains
\* exactly the entry "Could not determine ingested table name", spatial_join
\* stays None and spatial_join_exposure is never issued.
C7_MissingTable ==
    Stage4RanWithoutTable =>
        /\ pc \in {"finish", "done"}
        /\ Len(results.errors) >= 1
        /\ results.errors[Len(results.errors)] = NoTableMessage
        /\ \A i \in 1..(Len(results.errors) - 1) :
              StageOfMessage(results.errors[i]) = 2
        /\ Len(results.errors) = (IF results.locations = JNull THEN 2 ELSE 1)
        /\ results.spatial_join = JNull
        /\ ~IssuedTo("rpc/spatial_join_exposure")

\* the record names a schema but no table, and the invocation returned
C7_Witness ==
    /\ Stage4RanWithoutTable
    /\ server.data_source.body = DsNoTable
    /\ pc = "done"
    /\ Len(returned) = 1

\* C8: when the metadata call fails with a transport error of message m the
\* outcome is {metadata: None, locations: None, ingestion: None,
\* spatial_join: None, errors: ["Metadata loading failed: " + m]}.
C8_TransportErrorOutcome ==
    (pc = "done" /\ server.fetch_and_load_jsonld.kind = "transport") =>
        returned =
            <<[metadata |-> JNull, locations |-> JNull, ingestion |-> JNull,
               spatial_join |-> JNull,
               errors |-> <<"Metadata loading failed: " \o
                              server.fetch_and_load_jsonld.msg>>]>>

\* the metadata call failed in transport and the invocation returned
C8_Witness ==
    /\ pc = "done"
    /\ server.fetch_and_load_jsonld.kind = "transport"
    /\ Len(requests) = 1
    /\ Len(returned) = 1

\* every populated stage field is the body of the reply to its stage's call
RawResponses ==
    /\ results.metadata # JNull =>
          /\ Receive(server.fetch_and_load_jsonld).ok
          /\ results.metadata = server.fetch_and_load_jsonld.body
    /\ results.locations # JNull =>
          /\ Receive(server.load_location_data).ok
          /\ results.locations = server.load_location_data.body
    /\ results.ingestion # JNull =>
          /\ Receive(server.quick_ingest_datasource).ok
          /\ results.ingestion = server.quick_ingest_datasource.body

\* metadata[0].dataset_name of the returned outcome
ReturnedDatasetName ==
    LET row == GetIndex(returned[1].metadata, 0)
    IN  IF row.ok THEN GetKey(row.val, "dataset_name") ELSE row

\* the outcome of the scenario
ScenarioOutcome ==
    /\ Len(returned) = 1
    /\ returned[1].errors = <<>>
    /\ returned[1].spatial_join = JNull
    /\ ReturnedDatasetName = Ok(JStr("PM2.5"))
    /\ returned[1].locations = server.load_location_data.body
    /\ returned[1].ingestion = server.quick_ingest_datasource.body

InStageOrder(errs) ==
    \A i, j \in 1..Len(errs) :
        i < j => StageOfMessage(errs[i]) < StageOfMessage(errs[j])

\* C10: errors keeps the order in which the stages were attempted: a stage 2
\* message precedes any stage 3 or stage 4 message, and entries are only ever
\* appended, never reordered or removed.
C10_ErrorsChronological ==
    [][/\ InStageOrder(results.errors')
       /\ Len(returned') = 1 => InStageOrder(returned'[1].errors)
       /\ results.errors' # results.errors =>
            /\ Len(results.errors') = Len(results.errors) + 1
            /\ SubSeq(results.errors', 1, Len(results.errors)) = results.errors]_vars

\* a stage 2 failure followed by a stage 3 failure
C10_Witness ==
    /\ pc = "done"
    /\ Len(results.errors) = 2
    /\ StageOfMessage(results.errors[1]) = 2
    /\ StageOfMessage(results.errors[2]) = 3

\* position of an endpoint in the order of the stages
EndpointRank(endpoint) ==
    CASE endpoint = "rpc/fetch_and_load_jsonld"   -> 1
      [] endpoint = "rpc/load_location_data"      -> 2
      [] endpoint = "rpc/quick_ingest_datasource" -> 3
      [] endpoint = "data_source"                 -> 4
      [] endpoint = "rpc/spatial_join_exposure"   -> 5

\* the requests of reqs were issued in the order of the stages
InRequestOrder(reqs) ==
    \A i, j \in 1..Len(reqs) :
        i < j => EndpointRank(EndpointOf(reqs[i])) < EndpointRank(EndpointOf(reqs[j]))

WaitPositions == {"s1_wait", "s2_wait", "s3_wait", "s4_wait", "s4_join_wait"}

\* C11: requests are strictly sequential: they are issued in the order
\* fetch_and_load_jsonld, load_location_data, quick_ingest_datasource,
\* data_source read, spatial_join_exposure, a request is issued only when
\* the previous one is resolved, and never are two in flight.
C11_SequentialRequests ==
    /\ [](/\ inflight \in {0, 1}
          /\ inflight = 1 <=> pc \in WaitPositions
          /\ InRequestOrder(requests))
    /\ [][requests' # requests =>
            /\ inflight = 0
            /\ inflight' = 1
            /\ Len(requests') = Len(requests) + 1
            /\ SubSeq(requests', 1, Len(requests)) = requests]_vars

\* all five requests were issued and resolved
C11_Witness ==
    /\ pc = "done"
    /\ Len(requests) = 5
    /\ inflight = 0
    /\ EndpointOf(requests[5]) = "rpc/spatial_join_exposure"

-----------------------------------------------------------------------------
(* Properties of the single-request operations *)

\* the query parameters that are equality filters
EqKeys(params) ==
    {k \in DOMAIN params : params[k] \in {EqFilter(v) : v \in FilterValues}}

\* C12: a read given a filter mapping of N entries (get_data_sources, or
\* query with any combination of select, order, limit and offset) sends
\* exactly N eq.-prefixed query parameters, one per entry, with its value.
C12_FilterParams ==
    (op.name \in {"get_data_sources", "query"} /\ Len(requests) = 1) =>
        LET params == requests[1].params.fields
        IN  /\ Cardinality(EqKeys(params)) = Cardinality(DOMAIN op.filters)
            /\ \A k \in DOMAIN op.filters :
                  /\ k \in DOMAIN params
                  /\ params[k] = JStr("eq." \o Str(op.filters[k]))

\* the schema profile an invocation names, or the one its method fixes
DeclaredSchema(o) ==
    IF o.name \in {"_request", "_rpc", "query"} THEN o.schema
    ELSE IF o.name \in {"get_locations", "get_location", "get_location_history",
                        "get_exposures", "load_location_data",
                        "spatial_join_exposure"} THEN "working"
    ELSE "backbone"

ProfileHeaders(req) ==
    {h \in DOMAIN req.headers : h \in {"Accept-Profile", "Content-Profile"}}

\* C13: the profile headers depend only on profile and request kind: a read
\* with the alternate profile carries exactly Accept-Profile, an RPC call
\* with it exactly Accept-Profile and Content-Profile naming the same
\* profile, and with the default profile neither carries a profile header.
C13_ProfileHeaders ==
    \A i \in 1..Len(requests) :
        LET req == requests[i]
        IN  /\ DeclaredSchema(op) = "backbone" => ProfileHeaders(req) = {}
            /\ (DeclaredSchema(op) = "working" /\ req.method = "GET") =>
                  /\ ProfileHeaders(req) = {"Accept-Profile"}
                  /\ req.headers["Accept-Profile"] = "working"
            /\ (DeclaredSchema(op) = "working" /\ req.method = "POST") =>
                  /\ ProfileHeaders(req) = {"Accept-Profile", "Content-Profile"}
                  /\ req.headers["Accept-Profile"] = "working"
                  /\ req.headers["Content-Profile"] = "working"

\* an RPC call with the alternate profile was sent
C13_Witness ==
    /\ op.name = "_rpc"
    /\ op.schema = "working"
    /\ Len(requests) = 1
    /\ requests[1].method = "POST"
    /\ ProfileHeaders(requests[1]) = {"Accept-Profile", "Content-Profile"}

\* the error of a response with a 4xx or 5xx status
StatusError(status) ==
    ToString(status) \o (IF status < 500 THEN " Client Error" ELSE " Server Error")

IsSuccess(reply) == reply.kind = "http" /\ reply.status >= 200 /\ reply.status < 300

\* the operation failed with exactly the error exc
FailedWith(exc) == returned = <<>> /\ escaped = <<exc>>

-----------------------------------------------------------------------------
(* Further properties of run_full_pipeline *)

\* the first record of a data_source reply names a table
HasTable(body) ==
    /\ body.kind = "list"
    /\ Len(body.items) > 0
    /\ body.items[1].kind = "dict"
    /\ "etl_metadata" \in DOMAIN body.items[1].fields
    /\ body.items[1].fields.etl_metadata.kind = "dict"
    /\ "ingested_table" \in DOMAIN body.items[1].fields.etl_metadata.fields
    /\ LET it == body.items[1].fields.etl_metadata.fields.ingested_table
       IN  /\ it.kind = "dict"
           /\ "table" \in DOMAIN it.fields
           /\ it.fields.table.kind = "str"
           /\ it.fields.table.s # ""

\* "<schema>.<table>" of such a record, with public for a missing schema
QualifiedTable(body) ==
    LET it == body.items[1].fields.etl_metadata.fields.ingested_table.fields
    IN  (IF "schema" \in DOMAIN it THEN it.schema.s ELSE "public")
            \o "." \o it.table.s

\* the request sent to endpoint
RequestTo(endpoint) ==
    requests[CHOOSE i \in 1..Len(requests) :
                 requests[i].url = UrlJoin(base_url, endpoint)]

\* C15: the data_source read of stage 4 is filtered by the dataset_name of
\* the first element of the stage 1 response, the name stage 3 passed to
\* quick_ingest_datasource; if the record has a table, spatial_join_exposure
\* is called with variable_source_id and "<schema>.<table>" (schema public
\* when the record has none) and its response is stored in spatial_join.
C15_Stage4Requests ==
    /\ IssuedTo("data_source") =>
          LET name == results.metadata.items[1].fields.dataset_name
          IN  /\ RequestTo("data_source").method = "GET"
              /\ RequestTo("data_source").params =
                     JDict([dataset_name |-> JStr("eq." \o name.s)])
              /\ RequestTo("rpc/quick_ingest_datasource").json =
                     JDict([p_dataset_name |-> name])
    /\ (/\ IssuedTo("data_source")
        /\ pc \notin {"s4_wait", "s4_join"}
        /\ server.data_source.kind = "http"
        /\ server.data_source.status = 200
        /\ HasTable(server.data_source.body)) =>
          /\ IssuedTo("rpc/spatial_join_exposure")
          /\ RequestTo("rpc/spatial_join_exposure").method = "POST"
          /\ RequestTo("rpc/spatial_join_exposure").json =
                 JDict([p_variable_source_id |-> variable_source_id,
                        p_external_table |->
                            JStr(QualifiedTable(server.data_source.body))])
          /\ (pc \in {"finish", "done"} /\ server.spatial_join_exposure.kind = "http"
                /\ server.spatial_join_exposure.status = 200) =>
                 results.spatial_join = server.spatial_join_exposure.body
    /\ IssuedTo("rpc/spatial_join_exposure") =>
          /\ server.data_source.kind = "http"
          /\ HasTable(server.data_source.body)

\* the record names a table without a schema and the join was stored
C15_Witness ==
    /\ pc = "done"
    /\ server.data_source = HttpReply(200, DsNoSchema)
    /\ IssuedTo("rpc/spatial_join_exposure")
    /\ RequestTo("rpc/spatial_join_exposure").json.fields.p_external_table
           = JStr("public.pm25")
    /\ results.spatial_join = JoinBody

\* number of requests of reqs sent to endpoint
TimesIssued(reqs, endpoint) ==
    Cardinality({i \in 1..Len(reqs) : reqs[i].url = UrlJoin(base_url, endpoint)})

\* the endpoints stage n calls
StageEndpoints(n) ==
    CASE n = 1 -> {"rpc/fetch_and_load_jsonld"}
      [] n = 2 -> {"rpc/load_location_data"}
      [] n = 3 -> {"rpc/quick_ingest_datasource"}
      [] n = 4 -> Stage4Endpoints

\* C16: no retries: within one invocation each stage's request is issued at
\* most once, and a stage that failed is never attempted again.
C16_NoRetries ==
    /\ [](/\ \A e \in AllEndpoints : TimesIssued(requests, e) <= 1
          /\ Len(requests) <= 5)
    /\ [][\A n \in 1..4 : StageFailed(n) =>
            \A e \in StageEndpoints(n) :
                TimesIssued(requests', e) = TimesIssued(requests, e)]_vars

\* every request was issued once although stage 2 and the join failed
C16_Witness ==
    /\ pc = "done"
    /\ StageFailed(2)
    /\ StageFailed(4)
    /\ \A e \in AllEndpoints : TimesIssued(requests, e) = 1

\* number of entries of errors written by the stages of a set
EntriesOf(stages) ==
    Cardinality({i \in 1..Len(results.errors) :
                    StageOfMessage(results.errors[i]) \in stages})

\* C17: errors never has more than 2 entries: exactly 1 after a stage 1
\* failure, otherwise at most one of stage 2 plus at most one of either
\* stage 3 or stage 4, never both; stage 4 contributes at most one.
C17_AtMostTwoErrors ==
    /\ Len(results.errors) <= 2
    /\ StageFailed(1) => Len(results.errors) = 1
    /\ EntriesOf({2}) <= 1
    /\ EntriesOf({3, 4}) <= 1
    /\ EntriesOf({4}) <= 1
    /\ EntriesOf({1, 2, 3, 4}) = Len(results.errors)

\* stage 2 failed and stage 4 found no table
C17_Witness ==
    /\ pc = "done"
    /\ Len(results.errors) = 2
    /\ StageOfMessage(results.errors[1]) = 2
    /\ results.errors[2] = NoTableMessage

\* C18: stage fields are populated in dependency order: locations or
\* ingestion only after the stage 1 response was stored in metadata,
\* spatial_join only with a variable identifier and after the stage 1 and
\* stage 3 responses were stored; each field is written at most once.
C18_DependencyOrder ==
    /\ [](/\ (results.locations # JNull \/ results.ingestion # JNull) =>
                /\ server.fetch_and_load_jsonld.kind = "http"
                /\ results.metadata = server.fetch_and_load_jsonld.body
          /\ results.spatial_join # JNull =>
                /\ Truthy(variable_source_id)
                /\ server.fetch_and_load_jsonld.kind = "http"
                /\ results.metadata = server.fetch_and_load_jsonld.body
                /\ server.quick_ingest_datasource.kind = "http"
                /\ results.ingestion = server.quick_ingest_datasource.body)
    /\ [][/\ results.metadata # JNull => results.metadata' = results.metadata
          /\ results.locations # JNull => results.locations' = results.locations
          /\ results.ingestion # JNull => results.ingestion' = results.ingestion
          /\ results.spatial_join # JNull =>
                results.spatial_join' = results.spatial_join]_vars

\* the join was stored although the location load had failed
C18_Witness ==
    /\ pc = "done"
    /\ results.spatial_join # JNull
    /\ results.locations = JNull
    /\ results.ingestion # JNull

\* the data_source read of stage 4 failed or returned no record
Stage4ReadFailed ==
    /\ IssuedTo("data_source")
    /\ pc # "s4_wait"
    /\ \/ server.data_source.kind = "transport"
       \/ server.data_source.status >= 400
       \/ server.data_source.body = DsNone

\* str(e) of that failure
Stage4ReadError ==
    IF server.data_source.kind = "transport" THEN server.data_source.msg
    ELSE IF server.data_source.status >= 400
    THEN StatusError(server.data_source.status)
    ELSE "list index out of range"

\* C19: when the data_source read of stage 4 fails or returns an empty
\* list, errors gains exactly one "Spatial join failed: ..." entry (not the
\* missing-table message), spatial_join stays None, spatial_join_exposure
\* is never called, and metadata, locations and ingestion are left as they
\* were.
C19_ReadFailure ==
    /\ [](Stage4ReadFailed =>
            /\ pc \in {"finish", "done"}
            /\ Len(results.errors) > 0
            /\ results.errors[Len(results.errors)] = JoinPrefix \o Stage4ReadError
            /\ EntriesOf({4}) = 1
            /\ \A i \in 1..Len(results.errors) : results.errors[i] # NoTableMessage
            /\ results.spatial_join = JNull
            /\ ~IssuedTo("rpc/spatial_join_exposure")
            /\ results.metadata = server.fetch_and_load_jsonld.body
            /\ results.ingestion = server.quick_ingest_datasource.body)
    /\ [][pc = "s4_wait" =>
            /\ results.metadata' = results.metadata
            /\ results.locations' = results.locations
            /\ results.ingestion' = results.ingestion
            /\ Len(results.errors') <= Len(results.errors) + 1]_vars

\* the read found no record for the dataset_name
C19_Witness ==
    /\ pc = "done"
    /\ server.data_source = HttpReply(200, DsNone)
    /\ Len(results.errors) > 0
    /\ results.errors[Len(results.errors)] = JoinPrefix \o "list index out of range"
    /\ results.locations # JNull

====
